---- MODULE Spec2Model ----
(***************************************************************************)
(* Model of the TradingView scraper service (src/main.py): the pure        *)
(* classifier classify_candle and the POST /scrape handler, which resolves *)
(* the symbol and the interval, computes the bar count, fetches a frame    *)
(* from the provider, converts every row to a candle and builds the        *)
(* response inside one try/except; the route then renders the returned     *)
(* ScrapeResponse as the JSON body of the HTTP response.                   *)
(*                                                                         *)
(* Numbers are integers (prices that a float holds exactly); a cell of a   *)
(* fetched frame is a tagged value: a number or NaN.          Strings that   *)
(* the code inspects (the symbol) are sequences of characters; messages    *)
(* are sequences of words.                                                 *)
(***************************************************************************)
EXTENDS Integers, Sequences, FiniteSets, TLC

VARIABLES
    pc,         \* "idle" | "received" | "responded" | "classified"
    request,    \* the ScrapeRequest being handled
    call,       \* the arguments scrape passed to tv.get_hist, or NoCall
    df,         \* what the provider did: constructor/fetch outcome and frame
    raisedAt,   \* the step of the try body that raised, or "none"
    response,   \* the ScrapeResponse returned by scrape, or NoResponse
    escaped,    \* TRUE when an exception left scrape unhandled
    http,       \* how the request ended: status, body sent, exception out of the app
    cls         \* a direct classify_candle call: its arguments and result

vars == <<pc, request, call, df, raisedAt, response, escaped, http, cls>>

----------------------------------------------------------------------------
(* Bounds of the model *)

MaxBars == 5
MaxPrice == 10

----------------------------------------------------------------------------
(* Cells and strings *)

Num(n) == [k |-> "num", v |-> n]
NaN == [k |-> "nan", v |-> 0]

IsNum(x) == x.k = "num"

LowerLetters == <<"a","b","c","d","e","f","g","h","i","j","k","l","m",
                  "n","o","p","q","r","s","t","u","v","w","x","y","z">>
UpperLetters == <<"A","B","C","D","E","F","G","H","I","J","K","L","M",
                  "N","O","P","Q","R","S","T","U","V","W","X","Y","Z">>

UpperChar(c) ==
    IF \E i \in 1..Len(LowerLetters) : LowerLetters[i] = c
    THEN UpperLetters[CHOOSE i \in 1..Len(LowerLetters) : LowerLetters[i] = c]
    ELSE c

\* str.upper()
Upper(s) == [i \in 1..Len(s) |-> UpperChar(s[i])]

\* str.startswith(prefix)
StartsWith(s, prefix) ==
    /\ Len(s) >= Len(prefix)
    /\ SubSeq(s, 1, Len(prefix)) = prefix

----------------------------------------------------------------------------
(* Inputs *)

SymWinLower == <<"w","i","n","z","2","5">>
SymWDOF26 == <<"W","D","O","F","2","6">>
SymPETR4 == <<"P","E","T","R","4">>
SymPrefixedWIN == <<"B","M","F","B","O","V","E","S","P","A",":","W","I","N","Z","2","5">>

Symbols == {SymWinLower, SymWDOF26, SymPETR4, SymPrefixedWIN}
Timeframes == {"2m", "1d", "3m", "10m"}
Limits == {2, 100}
HistoricalDays == {7, 19}

Requests == [symbol : Symbols, timeframe : Timeframes, limit : Limits,
             historical_days : HistoricalDays]

RowReversal == [open |-> Num(100), high |-> Num(110), low |-> Num(90),
                close |-> Num(108), volume |-> Num(5)]
RowFlat == [open |-> Num(10), high |-> Num(10), low |-> Num(10),
            close |-> Num(10), volume |-> Num(0)]
RowNaNClose == [open |-> Num(100), high |-> Num(110), low |-> Num(90),
                close |-> NaN, volume |-> Num(1)]

SampleRows == {RowReversal, RowFlat, RowNaNClose}

AllColumns == {"open", "high", "low", "close", "volume"}
ColumnSets == {AllColumns, AllColumns \ {"volume"}, AllColumns \ {"close"}, {}}

\* The index of a fetched frame: datetimes, ISO-8601 strings, or the
\* integers 0, 1, ... of a default RangeIndex.
IndexKinds == {"datetime", "isostr", "range"}

RowSeqs == UNION {[1..n -> SampleRows] : n \in 0..MaxBars}

\* What the provider can do: the constructor raises, get_hist raises,
\* get_hist returns None, or get_hist returns a frame.
ProviderOutcomes ==
    {[kind |-> "ctor_raise", index |-> "none", columns |-> {}, rows |-> <<>>],
     [kind |-> "fetch_raise", index |-> "none", columns |-> {}, rows |-> <<>>],
     [kind |-> "none", index |-> "none", columns |-> {}, rows |-> <<>>]}
    \cup [kind : {"frame"}, index : IndexKinds, columns : ColumnSets,
          rows : RowSeqs]

NoRequest == [symbol |-> <<>>, timeframe |-> "", limit |-> 0, historical_days |-> 0]
NoCall == [made |-> FALSE, symbol |-> <<>>, exchange |-> "", interval |-> "",
           n_bars |-> 0, fut_contract |-> 0]
NoFrame == [kind |-> "unset", index |-> "none", columns |-> {}, rows |-> <<>>]
NoResponse == [success |-> FALSE, symbol |-> <<>>, candles |-> <<>>, message |-> <<>>]
NoCls == [open |-> NaN, high |-> NaN, low |-> NaN, close |-> NaN, label |-> ""]

PriceCells == {Num(n) : n \in 0..MaxPrice} \cup {NaN}

----------------------------------------------------------------------------
(* classify_candle *)

Abs(x) == IF x < 0 THEN -x ELSE x

\* body / range > tenths / 10, for range # 0 (the quotient is negative or
\* zero when range < 0, as body >= 0)
RatioGT(body, range, tenths) ==
    IF range > 0 THEN 10 * body > tenths * range
    ELSE 10 * body < tenths * range

\* body / range < tenths / 10, for range # 0
RatioLT(body, range, tenths) ==
    IF range > 0 THEN 10 * body < tenths * range
    ELSE 10 * body > tenths * range

\* classify_candle with the strong threshold compared by >= instead of >
classify_candle_ge(open_price, high, low, close) ==
    IF IsNum(high) /\ IsNum(low) /\ high.v - low.v = 0
    THEN "exhaustion"
    ELSE IF ~(IsNum(high) /\ IsNum(low) /\ IsNum(open_price) /\ IsNum(close))
    THEN "reversal"
    ELSE LET body_size == Abs(close.v - open_price.v)
             total_range == high.v - low.v
             is_bullish == close.v > open_price.v
         IN  IF ~RatioLT(body_size, total_range, 7)
             THEN (IF is_bullish THEN "bull-strong" ELSE "bear-strong")
             ELSE IF RatioGT(body_size, total_range, 4)
             THEN (IF is_bullish THEN "bull-weak" ELSE "bear-weak")
             ELSE IF RatioLT(body_size, total_range, 2)
             THEN "exhaustion"
             ELSE "reversal"

\* classify_candle guarding on body_size == 0 instead of total_range == 0:
\* a zero range with a non-zero body then divides by zero
classify_candle_body_guard(open_price, high, low, close) ==
    IF IsNum(open_price) /\ IsNum(close) /\ close.v - open_price.v = 0
    THEN "exhaustion"
    ELSE IF ~(IsNum(high) /\ IsNum(low) /\ IsNum(open_price) /\ IsNum(close))
    THEN "reversal"
    ELSE IF high.v - low.v = 0
    THEN "ZeroDivisionError"
    ELSE LET body_size == Abs(close.v - open_price.v)
             total_range == high.v - low.v
             is_bullish == close.v > open_price.v
         IN  IF RatioGT(body_size, total_range, 7)
             THEN (IF is_bullish THEN "bull-strong" ELSE "bear-strong")
             ELSE IF RatioGT(body_size, total_range, 4)
             THEN (IF is_bullish THEN "bull-weak" ELSE "bear-weak")
             ELSE IF RatioLT(body_size, total_range, 2)
             THEN "exhaustion"
             ELSE "reversal"

\* A NaN operand makes body_size, total_range and body_ratio NaN, and every
\* comparison with NaN False: the code falls through to its last branch.
classify_candle(open_price, high, low, close) ==
    IF IsNum(high) /\ IsNum(low) /\ high.v - low.v = 0
    THEN "exhaustion"
    ELSE IF ~(IsNum(high) /\ IsNum(low) /\ IsNum(open_price) /\ IsNum(close))
    THEN "reversal"
    ELSE LET body_size == Abs(close.v - open_price.v)
             total_range == high.v - low.v
             is_bullish == close.v > open_price.v
         IN  IF RatioGT(body_size, total_range, 7)
             THEN (IF is_bullish THEN "bull-strong" ELSE "bear-strong")
             ELSE IF RatioGT(body_size, total_range, 4)
             THEN (IF is_bullish THEN "bull-weak" ELSE "bear-weak")
             ELSE IF RatioLT(body_size, total_range, 2)
             THEN "exhaustion"
             ELSE "reversal"

----------------------------------------------------------------------------
(* scrape: resolution *)

INTERVAL_MAP ==
    ("1m" :> "in_1_minute") @@ ("2m" :> "in_1_minute") @@
    ("5m" :> "in_5_minute") @@ ("15m" :> "in_15_minute") @@
    ("30m" :> "in_30_minute") @@ ("1h" :> "in_1_hour") @@
    ("4h" :> "in_4_hour") @@ ("1d" :> "in_daily")

\* symbol = request.symbol.upper(); WIN... -> WIN1!, WDO... -> WDO1!
ResolveSymbol(raw) ==
    LET symbol == Upper(raw)
    IN  IF StartsWith(symbol, <<"W","I","N">>) THEN <<"W","I","N","1","!">>
        ELSE IF StartsWith(symbol, <<"W","D","O">>) THEN <<"W","D","O","1","!">>
        ELSE symbol

\* INTERVAL_MAP.get(request.timeframe, Interval.in_1_minute)
ResolveInterval(timeframe) ==
    IF timeframe \in DOMAIN INTERVAL_MAP THEN INTERVAL_MAP[timeframe]
    ELSE "in_1_minute"

bars_per_day == 270
MaxNBars == 5000

Min(a, b) == IF a < b THEN a ELSE b

\* n_bars = min(request.historical_days * bars_per_day, 5000)
NBars(historical_days) == Min(historical_days * bars_per_day, MaxNBars)

GetHistCall(req) ==
    [made |-> TRUE, symbol |-> ResolveSymbol(req.symbol),
     exchange |-> "BMFBOVESPA", interval |-> ResolveInterval(req.timeframe),
     n_bars |-> NBars(req.historical_days), fut_contract |-> 1]

----------------------------------------------------------------------------
(* scrape: conversion of the frame *)

NoExc == [type |-> "", msg |-> <<>>]
Raise(type, msg) == [raised |-> TRUE, exc |-> [type |-> type, msg |-> msg], val |-> NaN]
Value(v) == [raised |-> FALSE, exc |-> NoExc, val |-> v]

\* str(KeyError(name)): the repr of the key
KeyRepr ==
    ("open" :> "'open'") @@ ("high" :> "'high'") @@ ("low" :> "'low'") @@
    ("close" :> "'close'") @@ ("volume" :> "'volume'")

\* repr(str(n)) of an index value n of a RangeIndex
IntRepr == <<"'0'", "'1'", "'2'", "'3'", "'4'", "'5'", "'6'", "'7'", "'8'", "'9'">>

\* float(row[name]): KeyError without the column; float() of a number or of
\* NaN is that value
FloatOf(columns, row, name) ==
    IF name \notin columns THEN Raise("KeyError", <<KeyRepr[name]>>)
    ELSE Value(row[name])

\* int(row['volume']) if 'volume' in row else 0
VolumeOf(columns, row) ==
    IF "volume" \notin columns THEN Value(Num(0))
    ELSE IF row.volume.k = "nan"
    THEN Raise("ValueError", <<"cannot", "convert", "float", "NaN", "to", "integer">>)
    ELSE Value(row.volume)

\* datetime.isoformat() of the datetime of row idx
isoformat(idx) == <<"iso", ToString(idx)>>

\* timestamp = idx if isinstance(idx, datetime)
\*             else datetime.fromisoformat(str(idx)), then .isoformat():
\* the integer idx - 1 of a RangeIndex is no ISO string and raises ValueError
TimestampOf(index, idx) ==
    IF index = "datetime" THEN Value(isoformat(idx))
    ELSE IF index = "isostr" THEN Value(isoformat(idx))
    ELSE Raise("ValueError",   \* row idx holds the index value idx - 1
               <<"Invalid", "isoformat", "string:", IntRepr[(idx - 1) + 1]>>)

\* One iteration of the loop: the CandleData of a row, or the exception its
\* first failing step raises (the timestamp, then the fields in order).
RowToCandle(index, columns, row, idx) ==
    LET t == TimestampOf(index, idx)
        o == FloatOf(columns, row, "open")
        h == FloatOf(columns, row, "high")
        l == FloatOf(columns, row, "low")
        c == FloatOf(columns, row, "close")
        v == VolumeOf(columns, row)
        first == IF t.raised THEN t ELSE IF o.raised THEN o
                 ELSE IF h.raised THEN h
                 ELSE IF l.raised THEN l ELSE IF c.raised THEN c ELSE v
    IN  IF first.raised
        THEN [raised |-> TRUE, exc |-> first.exc, candle |-> <<>>]
        ELSE [raised |-> FALSE, exc |-> NoExc,
              candle |-> [timestamp |-> t.val,
                          open |-> o.val, high |-> h.val, low |-> l.val,
                          close |-> c.val, volume |-> v.val.v,
                          candle_type |-> classify_candle(o.val, h.val, l.val, c.val)]]

RECURSIVE ConvertFrom(_, _, _)
ConvertFrom(frame, i, acc) ==
    IF i > Len(frame.rows) THEN [raised |-> FALSE, exc |-> NoExc, candles |-> acc]
    ELSE LET r == RowToCandle(frame.index, frame.columns, frame.rows[i], i)
         IN  IF r.raised
             THEN [raised |-> TRUE, exc |-> r.exc, candles |-> <<>>]
             ELSE ConvertFrom(frame, i + 1, Append(acc, r.candle))

\* for idx, row in df.iterrows(): candles.append(CandleData(...))
ConvertRows(frame) == ConvertFrom(frame, 1, <<>>)

\* the emptiness test reduced to df is None
IsNoneOnly(out) == out.kind = "none"

\* df is None or df.empty (a frame is empty when either axis has length 0)
IsEmpty(out) ==
    \/ out.kind = "none"
    \/ Len(out.rows) = 0
    \/ out.columns = {}

----------------------------------------------------------------------------
(* scrape: the try body and the handler *)

Returned(resp, c) ==
    [kind |-> "return", at |-> "none", exc |-> NoExc, resp |-> resp, call |-> c]
Raised(at, exc, c) ==
    [kind |-> "raise", at |-> at, exc |-> exc, resp |-> NoResponse, call |-> c]

TryBody(req, out) ==
    IF out.kind = "ctor_raise"
    THEN Raised("construct", [type |-> "ConnectionError",
                              msg |-> <<"connection", "failed">>], NoCall)
    ELSE LET c == GetHistCall(req)
         IN  IF out.kind = "fetch_raise"
             THEN Raised("fetch", [type |-> "Exception", msg |-> <<>>], c)
             ELSE IF IsEmpty(out)
             THEN Returned([success |-> FALSE, symbol |-> req.symbol,
                            candles |-> <<>>,
                            message |-> <<"No", "data", "returned", "from",
                                          "TradingView">>], c)
             ELSE LET conv == ConvertRows(out)
                  IN  IF conv.raised THEN Raised("convert", conv.exc, c)
                      ELSE Returned([success |-> TRUE, symbol |-> req.symbol,
                                     candles |-> conv.candles,
                                     message |-> <<"Extracted",
                                                   ToString(Len(conv.candles)),
                                                   "candles", "from",
                                                   "TradingView">>], c)

\* an except clause that names the provider's errors only
CatchesProviderErrorsOnly(exc) == exc.type \in {"Exception", "ConnectionError"}

\* except Exception as e: every exception the body raises derives from Exception
Catches(exc) ==
    exc.type \in {"Exception", "ConnectionError", "KeyError", "ValueError"}

ErrorResponse(req, exc) ==
    [success |-> FALSE, symbol |-> req.symbol, candles |-> <<>>,
     message |-> <<"Error:">> \o exc.msg]

\* scrape as a function: what it returns, or that its exception escaped
ScrapeReturn(req, b) ==
    IF b.kind = "return" THEN [response |-> b.resp, escaped |-> FALSE]
    ELSE IF Catches(b.exc)
    THEN [response |-> ErrorResponse(req, b.exc), escaped |-> FALSE]
    ELSE [response |-> NoResponse, escaped |-> TRUE]

----------------------------------------------------------------------------
(* The route: @app.post("/scrape", response_model=ScrapeResponse) *)

NoHttp == [status |-> 0, body |-> NoResponse, exc |-> NoExc]

\* json.dumps(..., allow_nan=False) of the response: a NaN price is no JSON
JSONCompliant(resp) ==
    \A i \in 1..Len(resp.candles) :
        /\ IsNum(resp.candles[i].open)
        /\ IsNum(resp.candles[i].high)
        /\ IsNum(resp.candles[i].low)
        /\ IsNum(resp.candles[i].close)

\* The route validates the returned ScrapeResponse and renders it as JSON:
\* 200 with the response as body, or, when rendering raises, the ValueError
\* leaves the app and the client gets 500 without a ScrapeResponse.
RouteResponse(ret) ==
    IF ret.escaped
    THEN [status |-> 500, body |-> NoResponse,
          exc |-> [type |-> "Exception", msg |-> <<>>]]
    ELSE IF JSONCompliant(ret.response)
    THEN [status |-> 200, body |-> ret.response, exc |-> NoExc]
    ELSE [status |-> 500, body |-> NoResponse,
          exc |-> [type |-> "ValueError",
                   msg |-> <<"Out", "of", "range", "float", "values", "are",
                             "not", "JSON", "compliant">>]]

----------------------------------------------------------------------------
(* The state machine *)

Init ==
    /\ pc = "idle"
    /\ request = NoRequest
    /\ call = NoCall
    /\ df = NoFrame
    /\ raisedAt = "none"
    /\ response = NoResponse
    /\ escaped = FALSE
    /\ http = NoHttp
    /\ cls = NoCls

\* A POST /scrape arrives with a validated ScrapeRequest.
Receive ==
    /\ pc = "idle"
    /\ \E req \in Requests : request' = req
    /\ pc' = "received"
    /\ UNCHANGED <<call, df, raisedAt, response, escaped, http, cls>>

\* The whole handling of the request, for whatever the provider does: the
\* call of scrape and the rendering of what it returned.
scrape ==
    /\ pc = "received"
    /\ \E out \in ProviderOutcomes :
         \E b \in {TryBody(request, out)} :
             \E ret \in {ScrapeReturn(request, b)} :
                 /\ df' = out
                 /\ call' = b.call
                 /\ raisedAt' = b.at
                 /\ response' = ret.response
                 /\ escaped' = ret.escaped
                 /\ http' = RouteResponse(ret)
    /\ pc' = "responded"
    /\ UNCHANGED <<request, cls>>

\* A direct call of classify_candle.
ClassifyCall ==
    /\ pc = "idle"
    /\ \E o \in PriceCells, h \in PriceCells, l \in PriceCells, c \in PriceCells :
         cls' = [open |-> o, high |-> h, low |-> l, close |-> c,
                 label |-> classify_candle(o, h, l, c)]
    /\ pc' = "classified"
    /\ UNCHANGED <<request, call, df, raisedAt, response, escaped, http>>

Next == Receive \/ scrape \/ ClassifyCall

Spec == Init /\ [][Next]_vars

----------------------------------------------------------------------------
(* Properties *)

Responded == pc = "responded"
Classified == pc = "classified"

\* the request ended with the ScrapeResponse that scrape returned as its body
Delivered ==
    /\ ~escaped
    /\ http.status = 200
    /\ http.body = response
    /\ http.exc = NoExc

FailureShape ==
    /\ Delivered
    /\ http.body.success = FALSE
    /\ http.body.candles = <<>>
    /\ Len(http.body.message) > 0

\* C1: whenever a step of the try body raised (the provider's constructor,
\* the fetch, or the conversion of a row), the request still ends with a
\* response with success = false, no candles and a non-empty message, and
\* no exception leaves scrape or the app.
Thm_C1_RaiseGivesFailureResponse ==
    (Responded /\ raisedAt # "none") => FailureShape

Wit_C1_ConversionRaised ==
    /\ Responded
    /\ raisedAt = "convert"
    /\ df.kind = "frame"
    /\ Len(df.rows) > 0
    /\ df.index = "datetime"
    /\ http.status = 200
    /\ http.body.message = <<"Error:", "'close'">>

\* C2: when the fetch returns None or a frame without rows, and nothing
\* raised, scrape answers success = false, no candles and a non-empty
\* message by its normal return, not through the except clause.
Thm_C2_NoDataIsNormalFailure ==
    (Responded /\ (df.kind = "none" \/ (df.kind = "frame" /\ Len(df.rows) = 0)))
        => (FailureShape /\ raisedAt = "none")

Wit_C2_EmptyFrame ==
    /\ Responded
    /\ df.kind = "frame"
    /\ df.columns = AllColumns
    /\ Len(df.rows) = 0
    /\ http.status = 200
    /\ http.body.message = <<"No", "data", "returned", "from", "TradingView">>

\* A bar that cannot be normalized: its open or close is missing (the column
\* is absent, or the cell holds no number).
Unusable(columns, row) ==
    \/ "open" \notin columns
    \/ "close" \notin columns
    \/ ~IsNum(row.open)
    \/ ~IsNum(row.close)

UsableRows(columns, rows) == SelectSeq(rows, LAMBDA r : ~Unusable(columns, r))

SameBar(candle, row) ==
    /\ candle.open = row.open
    /\ candle.high = row.high
    /\ candle.low = row.low
    /\ candle.close = row.close

\* C3: when exactly one bar of a fetched sequence cannot be normalized, only
\* that bar is omitted: the response holds one candle for every other bar, in
\* the original order (5 bars with 1 missing close give 4 candles).
Cex_C3_OnlyTheBadBarIsOmitted ==
    (/\ Responded
     /\ df.kind = "frame"
     /\ Len(df.rows) > 1
     /\ Len(UsableRows(df.columns, df.rows)) = Len(df.rows) - 1)
        => LET kept == UsableRows(df.columns, df.rows)
           IN  /\ Delivered
               /\ Len(http.body.candles) = Len(kept)
               /\ \A i \in 1..Len(kept) : SameBar(http.body.candles[i], kept[i])

LastN(seq, n) ==
    IF Len(seq) <= n THEN seq ELSE SubSeq(seq, Len(seq) - n + 1, Len(seq))

\* C4: in every successful response the candle list is the last
\* request.limit candles of the normalized sequence: never more than
\* request.limit candles, and the whole sequence when it is no longer.
Cex_C4_ResponseIsLimited ==
    (Responded /\ http.status = 200 /\ http.body.success)
        => /\ Len(http.body.candles) <= request.limit
           /\ http.body.candles =
                  LastN(ConvertRows(df).candles, request.limit)

Direction(o, c, bull, bear) == IF c > o THEN bull ELSE bear

\* C5: for numeric OHLC with high # low and ratio = |close - open| / (high - low):
\* ratio > 0.7 gives the strong label, else ratio > 0.4 the weak label, else
\* ratio < 0.2 "exhaustion", else "reversal"; the label is the bull variant
\* exactly when close > open; the comparisons are strict, so ratio = 0.7 is
\* weak and ratio = 0.4 or 0.2 is "reversal", and the bar (100, 110, 90, 108)
\* is a "reversal" candle.  (A negative range makes the ratio <= 0.)
Thm_C5_ClassifyByRatioBands ==
    /\ (/\ Classified
        /\ IsNum(cls.open) /\ IsNum(cls.high) /\ IsNum(cls.low) /\ IsNum(cls.close)
        /\ cls.high.v # cls.low.v)
          => LET o == cls.open.v
                 c == cls.close.v
                 b == IF c >= o THEN c - o ELSE o - c
                 r == cls.high.v - cls.low.v
             IN  /\ r < 0 => cls.label = "exhaustion"
                 /\ (r > 0 /\ 10 * b > 7 * r)
                      => cls.label = Direction(o, c, "bull-strong", "bear-strong")
                 /\ (r > 0 /\ 10 * b <= 7 * r /\ 10 * b > 4 * r)
                      => cls.label = Direction(o, c, "bull-weak", "bear-weak")
                 /\ (r > 0 /\ 10 * b <= 4 * r /\ 10 * b >= 2 * r)
                      => cls.label = "reversal"
                 /\ (r > 0 /\ 10 * b < 2 * r) => cls.label = "exhaustion"
    /\ (Responded /\ response.success)
          => \A i \in 1..Len(df.rows) :
                 df.rows[i] = RowReversal
                     => response.candles[i].candle_type = "reversal"

Wit_C5_RatioExactlySevenTenths ==
    /\ Classified
    /\ IsNum(cls.open) /\ IsNum(cls.high) /\ IsNum(cls.low) /\ IsNum(cls.close)
    /\ cls.high.v - cls.low.v = 10
    /\ cls.close.v - cls.open.v = 7
    /\ cls.label = "bull-weak"

OnlyFlatBars ==
    /\ df.kind = "frame"
    /\ df.index # "range"
    /\ {"open", "high", "low", "close"} \subseteq df.columns
    /\ Len(df.rows) > 0
    /\ \A i \in 1..Len(df.rows) : df.rows[i] = RowFlat

\* C6: with high = low classify_candle returns "exhaustion" whatever open and
\* close are, and a fetched bar with open = high = low = close comes out of
\* the pipeline as a candle of type "exhaustion": in every response scrape
\* returns with it, and a frame of such bars alone ends in a delivered
\* success response whose candles all carry that label.
Thm_C6_ZeroRangeIsExhaustion ==
    /\ (Classified /\ IsNum(cls.high) /\ IsNum(cls.low) /\ cls.high.v = cls.low.v)
          => cls.label = "exhaustion"
    /\ (Responded /\ response.success)
          => \A i \in 1..Len(df.rows) :
                 df.rows[i] = RowFlat
                     => /\ response.candles[i].candle_type = "exhaustion"
                        /\ SameBar(response.candles[i], RowFlat)
    /\ (Responded /\ OnlyFlatBars)
          => /\ Delivered
             /\ http.body.success
             /\ Len(http.body.candles) = Len(df.rows)
             /\ \A i \in 1..Len(df.rows) :
                    http.body.candles[i].candle_type = "exhaustion"

Wit_C6_FlatBarInResponse ==
    /\ Responded
    /\ http.status = 200
    /\ http.body.success
    /\ \E i \in 1..Len(df.rows) :
           /\ df.rows[i] = RowFlat
           /\ http.body.candles[i].candle_type = "exhaustion"

\* C7: every request ends in one terminal response, the ScrapeResponse that
\* scrape returned, and in it success = true holds exactly when the candle
\* list is non-empty.
Cex_C7_EndsInOneResponse ==
    Responded
        => /\ Delivered
           /\ http.body.symbol = request.symbol
           /\ http.body.success <=> Len(http.body.candles) > 0

IsSeparator(ch) == ch = ":" \/ ch = "-"

\* the symbol without an exchange prefix joined by ':' or '-'
StripPrefix(raw) ==
    IF \E i \in 1..Len(raw) : IsSeparator(raw[i])
    THEN LET j == CHOOSE i \in 1..Len(raw) :
                      /\ IsSeparator(raw[i])
                      /\ \A k \in 1..(i - 1) : ~IsSeparator(raw[k])
         IN  SubSeq(raw, j + 1, Len(raw))
    ELSE raw

\* C8: a symbol decorated with an exchange prefix joined by ':' or '-'
\* resolves to the provider symbol of the undecorated symbol: the prefix is
\* stripped, the rest upper-cased and the alias lookup applied to it.
Cex_C8_PrefixIsStripped ==
    (Responded /\ call.made)
        => call.symbol = ResolveSymbol(StripPrefix(request.symbol))

IntervalMinutes ==
    ("in_1_minute" :> 1) @@ ("in_5_minute" :> 5) @@ ("in_15_minute" :> 15) @@
    ("in_30_minute" :> 30) @@ ("in_1_hour" :> 60) @@ ("in_4_hour" :> 240) @@
    ("in_daily" :> 1440)

TimeframeMinutes == ("2m" :> 2) @@ ("3m" :> 3) @@ ("10m" :> 10) @@ ("1d" :> 1440)

\* the shortest supported interval that is no shorter than the timeframe
NearestCoarser(timeframe) ==
    CHOOSE iv \in DOMAIN IntervalMinutes :
        /\ IntervalMinutes[iv] >= TimeframeMinutes[timeframe]
        /\ \A other \in DOMAIN IntervalMinutes :
               IntervalMinutes[other] >= TimeframeMinutes[timeframe]
                   => IntervalMinutes[iv] <= IntervalMinutes[other]

\* C9: timeframe resolution never fails the request; a timeframe of the
\* table resolves to its entry, and one absent from the table to the nearest
\* coarser supported interval.
Cex_C9_AbsentGoesToNearestCoarser ==
    (Responded /\ call.made)
        => call.interval =
               IF request.timeframe \in DOMAIN INTERVAL_MAP
               THEN INTERVAL_MAP[request.timeframe]
               ELSE NearestCoarser(request.timeframe)

SessionMinutes == 540

BarsPerTradingDay(interval) ==
    IF IntervalMinutes[interval] >= SessionMinutes THEN 1
    ELSE SessionMinutes \div IntervalMinutes[interval]

\* C10: the bar count passed to the fetch is
\* min(historical_days * bars_per_trading_day, 5000), bars_per_trading_day
\* being the session length divided by the length of the resolved interval,
\* and it never exceeds 5000.
Cex_C10_BarCountFollowsInterval ==
    (Responded /\ call.made)
        => /\ call.n_bars <= 5000
           /\ call.n_bars =
                  Min(request.historical_days * BarsPerTradingDay(call.interval),
                      5000)

====
